---- MODULE Spec2Model ----
(***************************************************************************)
(* Model of the Scale Army job alert bot (src/main.py): one run is         *)
(* load -> fetch -> diff -> persist -> notify -> exit, the only state      *)
(* shared between runs is the snapshot file jobs.json.                     *)
(*                                                                         *)
(* Strings are sequences of character codes, so that string formatting     *)
(* (the id construction) and string ordering (sorted) are computed.        *)
(* The snapshot file is a sequence of JSON tokens, so that writing and     *)
(* parsing are two different computations.                                 *)
(***************************************************************************)
EXTENDS Integers, Sequences, FiniteSets, TLC

\* ------------------------------------------------------------------ bounds
\* Number of postings a board's feed can hold.
MaxJobs == 2
\* Number of consecutive runs of the script that are explored.
MaxRuns == 3
\* Number of tokens the write buffer of the file object holds: the text
\* reaches the file in blocks of this size, the last one when it is closed.
BufferTokens == 4

\* ------------------------------------------------------- character codes
\* ":" and "_", the separators of the id construction.
COLON == 58
UNDERSCORE == 95

\* The "null" of an absent upstream field.
NULL == <<>>

\* ---------------------------------------------------------------- strings
RECURSIVE LexLess(_, _)
\* Python's str.__lt__: lexicographic order on code points.
LexLess(s, t) ==
    IF t = <<>> THEN FALSE
    ELSE IF s = <<>> THEN TRUE
    ELSE IF s[1] # t[1] THEN s[1] < t[1]
    ELSE LexLess(Tail(s), Tail(t))

RECURSIVE sorted(_)
\* sorted(list(ids)): the ascending list of the elements of a set of strings.
sorted(S) ==
    IF S = {} THEN <<>>
    ELSE LET m == CHOOSE x \in S : \A y \in S \ {x} : LexLess(x, y)
         IN  <<m>> \o sorted(S \ {m})

\* The set of the elements of a list: Python's set(list).
ToSet(q) == {q[i] : i \in 1..Len(q)}

\* ----------------------------------------------------------------- boards
\* The board names.  The repository configures one board and is written for
\* any number of them ("to add more boards, just append to this list"); two
\* are modelled so that the loop over the boards is exercised.
\* The names are "A" and "B".
BOARDS == << <<65>>, <<66>> >>

\* Upstream posting j of a feed.  Posting 1 carries no source-local id, the
\* others carry the id "j".
RawJob(j) ==
    [id          |-> IF j = 1 THEN NULL ELSE <<48 + j>>,
     title       |-> <<97 + j>>,
     publishedAt |-> <<50>>]

\* What the feed of board b can hold: the first board is the large feed, any
\* further board a feed of one posting.
RawJobs(b) == {RawJob(j) : j \in 1..(IF b = 1 THEN MaxJobs ELSE 1)}

\* Variant: the id is not prefixed with the platform name.
normalise_job_NoPrefix(raw, platform_name) ==
    LET job_id == IF raw.id # NULL
                  THEN raw.id
                  ELSE raw.title \o <<UNDERSCORE>> \o raw.publishedAt
    IN  [id       |-> job_id,
         platform |-> platform_name,
         title    |-> raw.title]

\* normalise_job: the id is the platform name, a colon and the source-local
\* id, or "title_publishedAt" when the source-local id is missing or empty.
normalise_job(raw, platform_name) ==
    LET job_id == IF raw.id # NULL
                  THEN raw.id
                  ELSE raw.title \o <<UNDERSCORE>> \o raw.publishedAt
    IN  [id       |-> platform_name \o <<COLON>> \o job_id,
         platform |-> platform_name,
         title    |-> raw.title]

\* The failures fetch_jobs catches: a timeout, an HTTP error status, any other
\* error of the request, and a body that is not JSON.
FetchFailures == {"timeout", "http_error", "network_error", "parse_error"}

\* The responses that are JSON of another shape than {"jobs": [...]}: with an
\* array at the top data.get raises an AttributeError, with "jobs": null the
\* iteration raises a TypeError; fetch_jobs catches neither.
WrongShapes == {"json_array", "jobs_null"}

\* The responses of a board's endpoint.
Responses(b) == [status : {"ok"}, jobs : SUBSET RawJobs(b)]
                \cup [status : FetchFailures \cup WrongShapes, jobs : {{}}]

\* fetch_jobs: the normalised postings of a response, none on a failure it
\* catches.
fetch_jobs(board, response) ==
    IF response.status = "ok"
    THEN {normalise_job(raw, board) : raw \in response.jobs}
    ELSE {}

\* Every posting id a run can meet.
AllIds ==
    UNION {{normalise_job(raw, BOARDS[b]).id : raw \in RawJobs(b)} : b \in 1..Len(BOARDS)}

\* ------------------------------------------------------ the snapshot file
Tok(k) == [t |-> k, s |-> <<>>]
Str(x) == [t |-> "str", s |-> x]

\* json.dump({"ids": [...]}, f, indent=2), as the tokens written in order.
json_dump(ids_list) ==
    <<Tok("{"), Tok("ids:"), Tok("[")>>
    \o [i \in 1..Len(ids_list) |-> Str(ids_list[i])]
    \o <<Tok("]"), Tok("}")>>

\* The text is {"ids": [ strings ]}.
IsIdsObject(c) ==
    /\ Len(c) >= 5
    /\ c[1] = Tok("{") /\ c[2] = Tok("ids:") /\ c[3] = Tok("[")
    /\ c[Len(c) - 1] = Tok("]") /\ c[Len(c)] = Tok("}")
    /\ \A i \in 4..(Len(c) - 2) : c[i].t = "str"

\* json.load: the parsed value, or a JSONDecodeError.
json_load(c) ==
    IF IsIdsObject(c)
    THEN [kind |-> "object", ids |-> "list",
          list |-> [i \in 1..(Len(c) - 5) |-> c[i + 3].s]]
    ELSE IF c = <<Tok("{"), Tok("}")>>
    THEN [kind |-> "object", ids |-> "missing", list |-> <<>>]
    ELSE IF c = <<Tok("{"), Tok("ids:"), Tok("null"), Tok("}")>>
    THEN [kind |-> "object", ids |-> "null", list |-> <<>>]
    ELSE IF c = <<Tok("["), Tok("]")>>
    THEN [kind |-> "array", ids |-> "missing", list |-> <<>>]
    ELSE [kind |-> "JSONDecodeError", ids |-> "missing", list |-> <<>>]

\* load_seen_ids once the file is known to exist: (ids, False), or the
\* exception that escapes.  io_error: open() or read() fails with an IOError.
load_existing(content, io_error) ==
    IF io_error
    THEN [raised |-> FALSE, ids |-> {}, is_first_run |-> FALSE]
    ELSE LET data == json_load(content) IN
         IF data.kind = "JSONDecodeError"
         THEN [raised |-> FALSE, ids |-> {}, is_first_run |-> FALSE]
         ELSE IF data.kind # "object"
         \* data.get: AttributeError, which the except clause does not name
         THEN [raised |-> TRUE, ids |-> {}, is_first_run |-> FALSE]
         ELSE IF data.ids = "null"
         \* set(None): TypeError, which the except clause does not name
         THEN [raised |-> TRUE, ids |-> {}, is_first_run |-> FALSE]
         ELSE [raised |-> FALSE, ids |-> ToSet(data.list), is_first_run |-> FALSE]

\* Variant: a missing file is not taken for a first run.
load_seen_ids_NoFirstRun(exists, content, io_error) ==
    IF ~exists
    THEN [raised |-> FALSE, ids |-> {}, is_first_run |-> FALSE]
    ELSE load_existing(content, io_error)

\* Variant: an empty loaded set is taken for a first run.
load_seen_ids_EmptyIsFirst(exists, content, io_error) ==
    IF ~exists
    THEN [raised |-> FALSE, ids |-> {}, is_first_run |-> TRUE]
    ELSE LET r == load_existing(content, io_error)
         IN  [r EXCEPT !.is_first_run = (~r.raised /\ r.ids = {})]

\* load_seen_ids: (ids, is_first_run), or the exception that escapes it.
\* exists: os.path.exists(filepath).
load_seen_ids(exists, content, io_error) ==
    IF ~exists
    THEN [raised |-> FALSE, ids |-> {}, is_first_run |-> TRUE]
    ELSE load_existing(content, io_error)

\* The file a completed save of ids leaves.
Snapshot(ids) == json_dump(sorted(ids))

\* Files that hold no snapshot written by save_seen_ids.
ForeignFiles ==
    { <<>>,
      <<Tok("{"), Tok("}")>>,
      <<Tok("{"), Tok("ids:"), Tok("null"), Tok("}")>>,
      <<Tok("["), Tok("]")>> }

\* ------------------------------------------------------------------ state
VARIABLES
    file_exists,    \* jobs.json exists
    file,           \* its content, as tokens
    pc,             \* position of the running script; "idle" between runs
    outcome,        \* how the last run ended
    runs,           \* number of runs started
    seen_ids,       \* main: set loaded from the snapshot
    is_first_run,   \* main: flag returned by load_seen_ids
    board_i,        \* main: index of the next board of the loop over BOARDS
    all_jobs,       \* main: the postings fetched so far
    fetch_failed,   \* the boards (indexes) whose fetch_jobs logged a failure
    current_ids,    \* main: ids of all_jobs
    new_ids,        \* main: current_ids - seen_ids
    removed_ids,    \* main: seen_ids - current_ids
    updated_ids,    \* main: (seen_ids | new_ids) - removed_ids
    queue,          \* main: the ids of sorted(new_ids) the loop has not finished
    attempt,        \* send_telegram_message: index of the next attempt
    save_state,     \* "none", "open" (file opened for writing), "ok" or "failed"
    sends,          \* the ids send_telegram_message was called for, in call order
    dropped,        \* the id of the last message of this run whose send returned
                    \* False ("Message dropped."), as a set; empty if none
    load_kind,      \* how load_seen_ids answered: "absent", "snapshot", "fallback"
    file0,          \* the file as it was when the run started
    creds,          \* TELEGRAM_BOT_TOKEN and TELEGRAM_CHAT_ID are set (not empty)
    prev,           \* summary of the last run that ended
    owed,           \* ids a crash after a successful save left without a send
                    \* and every fetch since has returned
    unsent,         \* ids whose message was dropped after a successful save and
                    \* every fetch since has returned
    lost,           \* ids a save took out of the snapshot because their board
                    \* failed, and no fetch of that board has answered since
    observe         \* which of owed, unsent and lost is recorded

runVars == <<seen_ids, is_first_run, board_i, all_jobs, fetch_failed,
             current_ids, new_ids,
             removed_ids, updated_ids, queue, attempt, save_state, sends,
             dropped, load_kind>>

vars == <<file_exists, file, pc, outcome, runs, runVars, file0, creds, prev,
          owed,
          unsent, lost, observe>>

\* No previous run, or one that left nothing to compare with.
NoPrev == [saved |-> FALSE, crashed |-> FALSE, ids |-> {}, fetch |-> {}]

\* The files a first run of the script can find: none, a snapshot of an
\* earlier deployment, or something else under the same name.
InitialFiles ==
    {[exists |-> FALSE, content |-> <<>>]}
    \cup {[exists |-> TRUE, content |-> Snapshot(S)] : S \in SUBSET AllIds}
    \cup {[exists |-> TRUE, content |-> c] : c \in ForeignFiles}

Start ==
    /\ \E f \in InitialFiles : /\ file_exists = f.exists
                               /\ file = f.content
                               /\ file0 = f
    /\ pc = "idle"
    /\ outcome = "none"
    /\ runs = 0
    /\ creds = [token |-> FALSE, chat |-> FALSE]
    /\ seen_ids = {}
    /\ is_first_run = FALSE
    /\ board_i = 1
    /\ all_jobs = {}
    /\ fetch_failed = {}
    /\ current_ids = {}
    /\ new_ids = {}
    /\ removed_ids = {}
    /\ updated_ids = {}
    /\ queue = <<>>
    /\ attempt = 0
    /\ save_state = "none"
    /\ sends = <<>>
    /\ dropped = {}
    /\ load_kind = "none"
    /\ prev = NoPrev
    /\ owed = {}
    /\ unsent = {}
    /\ lost = {}

\* The state before the first run, with none of the three recorded.
Init == Start /\ observe = "none"

\* ------------------------------------------------------------- the script
\* Variant: no total-failure guard.
NoJobs_Never(jobs) == FALSE

\* if not all_jobs: the total-failure guard.
NoJobs(jobs) == jobs = {}

\* Variant: every current id is taken for new.
NewIds_All(cur, seen) == cur

\* Variant: every id that differs between the two sets is taken for new.
NewIds_SymDiff(cur, seen) == (cur \ seen) \cup (seen \ cur)

\* new_ids = current_ids - seen_ids
NewIds(cur, seen) == cur \ seen

\* Variant: every seen id is taken for removed.
RemovedIds_AllSeen(cur, seen) == seen

\* removed_ids = seen_ids - current_ids
RemovedIds(cur, seen) == seen \ cur

\* Variant: the new ids are not recorded.
UpdatedIds_NoNew(seen, new, removed) == seen \ removed

\* Variant: the removed ids stay in the snapshot.
UpdatedIds_KeepRemoved(seen, new, removed) == seen \cup new

\* updated_ids = (seen_ids | new_ids) - removed_ids
UpdatedIds(seen, new, removed) == (seen \cup new) \ removed

\* The ids handed to save_seen_ids by this run.
ids_to_persist == IF is_first_run THEN current_ids ELSE updated_ids

\* The summary of a run that ends: st is the state of its save.
Summary(crashed, st) ==
    IF st = "ok"
    THEN [saved |-> TRUE, crashed |-> crashed, ids |-> ids_to_persist,
          fetch |-> current_ids]
    ELSE NoPrev

\* owed when a run ends: the ids its fetch did not return leave, the ids a
\* crash after the save leaves in the loop enter.
Owed(crashed, st) ==
    IF observe # "owed" \/ current_ids = {} THEN owed
    ELSE IF crashed /\ st = "ok" /\ ~is_first_run
    THEN (owed \cap current_ids) \cup ToSet(queue)
    ELSE owed \cap current_ids

\* unsent when a run ends: the ids its fetch did not return leave, the id of
\* the message it dropped last enters if its save succeeded.
Unsent(st) ==
    IF observe # "unsent" \/ current_ids = {} THEN unsent
    ELSE (unsent \cap current_ids) \cup (IF st = "ok" THEN dropped ELSE {})

\* The ids of the postings board b can return.
IdsOf(b) == {normalise_job(raw, BOARDS[b]).id : raw \in RawJobs(b)}

\* lost when a run ends: the ids of the boards that answered leave; if the
\* save succeeded, the removed ids of the boards that failed enter.
Lost(st) ==
    IF observe # "lost" \/ current_ids = {} THEN lost
    ELSE LET of_failed == UNION {IdsOf(b) : b \in fetch_failed} IN
         (lost \cap of_failed)
             \cup (IF st = "ok" THEN removed_ids \cap of_failed ELSE {})

\* The variables of a process that has not run main yet.
Fresh ==
    /\ seen_ids' = {}
    /\ is_first_run' = FALSE
    /\ board_i' = 1
    /\ all_jobs' = {}
    /\ fetch_failed' = {}
    /\ current_ids' = {}
    /\ new_ids' = {}
    /\ removed_ids' = {}
    /\ updated_ids' = {}
    /\ queue' = <<>>
    /\ attempt' = 0
    /\ save_state' = "none"
    /\ sends' = <<>>
    /\ dropped' = {}
    /\ load_kind' = "none"

\* Variant: only the token is checked.
CredentialsSet_TokenOnly(token_set, chat_set) == token_set

\* The negation of "not TELEGRAM_BOT_TOKEN or not TELEGRAM_CHAT_ID".
CredentialsSet(token_set, chat_set) == token_set /\ chat_set

\* The exit status of a process that ended with outcome o.
ExitStatus(o) == IF o \in {"complete", "skipped"} THEN 0 ELSE 1

\* The process starts: module level and the credential check of main.
StartRun(token_set, chat_set) ==
    /\ pc = "idle"
    /\ runs < MaxRuns
    /\ runs' = runs + 1
    /\ file0' = [exists |-> file_exists, content |-> file]
    /\ creds' = [token |-> token_set, chat |-> chat_set]
    /\ Fresh
    /\ IF CredentialsSet(token_set, chat_set)
       THEN pc' = "load" /\ outcome' = "running" /\ UNCHANGED prev
       ELSE pc' = "idle" /\ outcome' = "SystemExit" /\ prev' = NoPrev
    /\ UNCHANGED <<file_exists, file, owed, unsent, lost, observe>>

\* 1. seen_ids, is_first_run = load_seen_ids(JOBS_FILE)
LoadSeenIds(io_error) ==
    /\ pc = "load"
    /\ LET r == load_seen_ids(file_exists, file, io_error) IN
       IF r.raised
       THEN /\ pc' = "idle"
            /\ outcome' = "load_raised"
            /\ prev' = NoPrev
            /\ UNCHANGED <<seen_ids, is_first_run, load_kind>>
       ELSE /\ pc' = "fetch"
            /\ seen_ids' = r.ids
            /\ is_first_run' = r.is_first_run
            /\ load_kind' = IF r.is_first_run THEN "absent"
                            ELSE IF ~io_error /\ json_load(file).kind = "object"
                            THEN "snapshot" ELSE "fallback"
            /\ UNCHANGED <<outcome, prev>>
    /\ UNCHANGED <<file_exists, file, runs, board_i, all_jobs, fetch_failed,
                   current_ids, new_ids,
                   removed_ids, updated_ids, queue, attempt, save_state, sends,
                   dropped, file0, creds, owed, unsent, lost, observe>>

\* Variant: a board whose fetch fails is asked again.
FetchBoard_RetryOnFailure(response) ==
    /\ pc = "fetch"
    /\ board_i <= Len(BOARDS)
    /\ response \in Responses(board_i)
    /\ all_jobs' = all_jobs \cup fetch_jobs(BOARDS[board_i], response)
    /\ IF response.status = "ok"
       THEN board_i' = board_i + 1 /\ UNCHANGED fetch_failed
       ELSE fetch_failed' = fetch_failed \cup {board_i} /\ UNCHANGED board_i
    /\ UNCHANGED <<file_exists, file, pc, outcome, runs, seen_ids, is_first_run,
                   current_ids, new_ids, removed_ids, updated_ids, queue,
                   attempt,
                   save_state, sends, dropped, load_kind, file0, creds, prev,
                   owed,
                   unsent, lost, observe>>

\* 2. one turn of the loop over BOARDS
FetchBoard(response) ==
    /\ pc = "fetch"
    /\ board_i <= Len(BOARDS)
    /\ response \in Responses(board_i)
    /\ fetch_failed' = IF response.status = "ok"
                       THEN fetch_failed
                       ELSE fetch_failed \cup {board_i}
    /\ IF response.status \in WrongShapes
       THEN \* the exception leaves fetch_jobs and main
            /\ pc' = "idle"
            /\ outcome' = "fetch_raised"
            /\ prev' = NoPrev
            /\ UNCHANGED <<all_jobs, board_i>>
       ELSE /\ LET board_jobs == fetch_jobs(BOARDS[board_i], response) IN
               all_jobs' = all_jobs \cup board_jobs
            /\ board_i' = board_i + 1
            /\ UNCHANGED <<pc, outcome, prev>>
    /\ UNCHANGED <<file_exists, file, runs, seen_ids, is_first_run,
                   current_ids, new_ids, removed_ids, updated_ids, queue,
                   attempt,
                   save_state, sends, dropped, load_kind, file0, creds, owed,
                   unsent, lost, observe>>

\* Variant: a steady-state run enters the notification loop without having
\* called save_seen_ids.
Diff_NotifyFirst ==
    /\ pc = "fetch"
    /\ board_i > Len(BOARDS)
    /\ IF NoJobs(all_jobs)
       THEN /\ pc' = "idle"
            /\ outcome' = "skipped"
            /\ prev' = NoPrev
            /\ UNCHANGED <<current_ids, new_ids, removed_ids, updated_ids,
                           queue>>
       ELSE LET cur == {job.id : job \in all_jobs} IN
            /\ current_ids' = cur
            /\ UNCHANGED <<outcome, prev>>
            /\ IF is_first_run
               THEN /\ pc' = "save_open"
                    /\ UNCHANGED <<new_ids, removed_ids, updated_ids, queue>>
               ELSE /\ pc' = "notify"
                    /\ queue' = sorted(NewIds(cur, seen_ids))
                    /\ new_ids' = NewIds(cur, seen_ids)
                    /\ removed_ids' = RemovedIds(cur, seen_ids)
                    /\ updated_ids' = UpdatedIds(seen_ids, NewIds(cur, seen_ids),
                                                 RemovedIds(cur, seen_ids))
    /\ UNCHANGED <<file_exists, file, runs, seen_ids, is_first_run, board_i,
                   all_jobs, fetch_failed,
                   attempt, save_state, sends, dropped, load_kind, file0,
                   creds, owed, unsent, lost, observe>>

\* After the loop: the total-failure guard, then the diff of steps 3 to 5, up
\* to the call of save_seen_ids.
Diff ==
    /\ pc = "fetch"
    /\ board_i > Len(BOARDS)
    /\ IF NoJobs(all_jobs)
       THEN /\ pc' = "idle"
            /\ outcome' = "skipped"
            /\ prev' = NoPrev
            /\ UNCHANGED <<current_ids, new_ids, removed_ids, updated_ids>>
       ELSE LET cur == {job.id : job \in all_jobs} IN
            /\ current_ids' = cur
            /\ pc' = "save_open"
            /\ UNCHANGED <<outcome, prev>>
            /\ IF is_first_run
               THEN UNCHANGED <<new_ids, removed_ids, updated_ids>>
               ELSE /\ new_ids' = NewIds(cur, seen_ids)
                    /\ removed_ids' = RemovedIds(cur, seen_ids)
                    /\ updated_ids' = UpdatedIds(seen_ids, NewIds(cur, seen_ids),
                                                 RemovedIds(cur, seen_ids))
    /\ UNCHANGED <<file_exists, file, runs, seen_ids, is_first_run, board_i,
                   all_jobs, fetch_failed,
                   queue, attempt, save_state, sends, dropped, load_kind,
                   file0, creds, owed, unsent, lost, observe>>

\* What main does when save_seen_ids has returned with its save in state st:
\* the first run ends, a steady-state run enters the loop over
\* sorted(list(new_ids)).
AfterSave(st) ==
    IF is_first_run
    THEN /\ pc' = "idle"
         /\ outcome' = "complete"
         /\ prev' = Summary(FALSE, st)
         /\ owed' = Owed(FALSE, st)
         /\ unsent' = Unsent(st)
         /\ lost' = Lost(st)
         /\ UNCHANGED observe
         /\ UNCHANGED queue
    ELSE /\ pc' = "notify"
         /\ queue' = sorted(new_ids)
         /\ UNCHANGED <<outcome, prev, owed, unsent, lost, observe>>

\* save_seen_ids, first half: open(filepath, "w") truncates the file, or
\* fails with an IOError that is logged and swallowed.
SaveOpen(io_error) ==
    /\ pc = "save_open"
    /\ IF io_error
       THEN /\ save_state' = "failed"
            /\ AfterSave("failed")
            /\ UNCHANGED <<file_exists, file>>
       ELSE /\ save_state' = "open"
            /\ file_exists' = TRUE
            /\ file' = <<>>
            /\ pc' = "save_write"
            /\ UNCHANGED <<outcome, queue, prev, owed, unsent, lost, observe>>
    /\ UNCHANGED <<runs, seen_ids, is_first_run, board_i, all_jobs,
                   fetch_failed, current_ids,
                   new_ids, removed_ids, updated_ids, attempt, sends, dropped,
                   load_kind, file0, creds>>

\* The lengths an interrupted writing of text can leave in the file: whole
\* blocks of the buffer, short of the whole text.
Flushed(text) == {n \in 0..(Len(text) - 1) : n % BufferTokens = 0}

\* save_seen_ids, second half: json.dump writes the text and the file is
\* closed; n is the number of tokens that reach the file.  With n short of
\* the whole text an IOError ended the writing; it is logged and swallowed.
SaveWrite(n) ==
    /\ pc = "save_write"
    /\ LET text == json_dump(sorted(ids_to_persist))
           st   == IF n = Len(text) THEN "ok" ELSE "failed"
       IN  /\ n \in Flushed(text) \cup {Len(text)}
           /\ file' = SubSeq(text, 1, n)
           /\ save_state' = st
           /\ AfterSave(st)
    /\ UNCHANGED <<file_exists, runs, seen_ids, is_first_run, board_i,
                   all_jobs, fetch_failed,
                   current_ids, new_ids, removed_ids, updated_ids, attempt,
                   sends,
                   dropped, load_kind, file0, creds>>

\* Variant: the loop over the new ids ends at the first message dropped.
SendTelegram_StopOnFailure(ok) ==
    /\ pc = "notify"
    /\ queue # <<>>
    /\ sends' = IF attempt = 0 THEN Append(sends, Head(queue)) ELSE sends
    /\ IF ok
       THEN queue' = Tail(queue) /\ attempt' = 0 /\ UNCHANGED dropped
       ELSE IF attempt = 0
       THEN attempt' = 1 /\ UNCHANGED <<queue, dropped>>
       ELSE queue' = <<>> /\ attempt' = 0 /\ dropped' = {Head(queue)}
    /\ UNCHANGED <<file_exists, file, pc, outcome, runs, seen_ids, is_first_run,
                   board_i, all_jobs, fetch_failed, current_ids, new_ids,
                   removed_ids, updated_ids,
                   save_state, load_kind, file0, creds, prev, owed, unsent,
                   lost, observe>>

\* Variant: send_telegram_message retries twice.
SendTelegram_ThreeAttempts(ok) ==
    /\ pc = "notify"
    /\ queue # <<>>
    /\ sends' = IF attempt = 0 THEN Append(sends, Head(queue)) ELSE sends
    /\ IF ok
       THEN queue' = Tail(queue) /\ attempt' = 0 /\ UNCHANGED dropped
       ELSE IF attempt < 2
       THEN attempt' = attempt + 1 /\ UNCHANGED <<queue, dropped>>
       ELSE queue' = Tail(queue) /\ attempt' = 0 /\ dropped' = {Head(queue)}
    /\ UNCHANGED <<file_exists, file, pc, outcome, runs, seen_ids, is_first_run,
                   board_i, all_jobs, fetch_failed, current_ids, new_ids,
                   removed_ids, updated_ids, save_state, load_kind, file0,
                   creds,
                   prev, owed, unsent, lost, observe>>

\* 6. one attempt of send_telegram_message for the id at the head of the
\* loop; ok: the POST succeeded.  The call returns True on a success, False
\* after the second failure, and the loop moves on either way.
SendTelegram(ok) ==
    /\ pc = "notify"
    /\ queue # <<>>
    /\ LET job_id == Head(queue) IN
       IF job_id \notin {job.id : job \in all_jobs}
       THEN \* job_by_id[job_id]: KeyError
            /\ pc' = "idle"
            /\ outcome' = "KeyError"
            /\ prev' = Summary(TRUE, save_state)
            /\ owed' = Owed(TRUE, save_state)
            /\ unsent' = Unsent(save_state)
            /\ lost' = Lost(save_state)
            /\ UNCHANGED observe
            /\ UNCHANGED <<queue, attempt, sends, dropped>>
       ELSE /\ sends' = IF attempt = 0 THEN Append(sends, job_id) ELSE sends
            /\ IF ok
               THEN /\ queue' = Tail(queue)
                    /\ attempt' = 0
                    /\ UNCHANGED dropped
               ELSE IF attempt = 0
               THEN /\ attempt' = 1
                    /\ UNCHANGED <<queue, dropped>>
               ELSE /\ queue' = Tail(queue)
                    /\ attempt' = 0
                    /\ dropped' = {job_id}
            /\ UNCHANGED <<pc, outcome, prev, owed, unsent, lost, observe>>
    /\ UNCHANGED <<file_exists, file, runs, seen_ids, is_first_run, board_i,
                   all_jobs, fetch_failed,
                   current_ids, new_ids, removed_ids, updated_ids, save_state,
                   load_kind, file0, creds>>

\* The loop is over: "Run complete."
Finish ==
    /\ pc = "notify"
    /\ queue = <<>>
    /\ pc' = "idle"
    /\ outcome' = "complete"
    /\ prev' = Summary(FALSE, save_state)
    /\ owed' = Owed(FALSE, save_state)
    /\ unsent' = Unsent(save_state)
    /\ lost' = Lost(save_state)
    /\ UNCHANGED observe
    /\ UNCHANGED <<file_exists, file, runs, runVars, file0, creds>>

\* The process is killed and its variables are gone.  Inside save_seen_ids
\* the file keeps the n tokens written so far.
Crash(n) ==
    /\ pc \notin {"idle"}
    /\ pc' = "idle"
    /\ outcome' = "crashed"
    /\ prev' = Summary(TRUE, save_state)
    /\ owed' = Owed(TRUE, save_state)
    /\ unsent' = Unsent(save_state)
    /\ lost' = Lost(save_state)
    /\ UNCHANGED observe
    /\ IF pc = "save_write"
       THEN /\ n \in Flushed(json_dump(sorted(ids_to_persist)))
            /\ file' = SubSeq(json_dump(sorted(ids_to_persist)), 1, n)
       ELSE /\ n = 0
            /\ UNCHANGED file
    /\ Fresh
    /\ UNCHANGED <<file_exists, runs, file0, creds>>

\* The longest text save_seen_ids writes.
MaxText == Len(json_dump(sorted(AllIds)))

Next ==
    \/ \E token_set, chat_set \in BOOLEAN : StartRun(token_set, chat_set)
    \/ \E io_error \in BOOLEAN : LoadSeenIds(io_error)
    \/ \E response \in UNION {Responses(b) : b \in 1..Len(BOARDS)} : FetchBoard(response)
    \/ Diff
    \/ \E io_error \in BOOLEAN : SaveOpen(io_error)
    \/ \E n \in 0..MaxText : SaveWrite(n)
    \/ \E ok \in BOOLEAN : SendTelegram(ok)
    \/ Finish
    \/ \E n \in 0..MaxText : Crash(n)

Spec == Init /\ [][Next]_vars

\* A step of the running script: a blocking call returns, with success or
\* with failure, and the script goes on to its next call or to its exit.
RunStep ==
    \/ \E io_error \in BOOLEAN : LoadSeenIds(io_error)
    \/ \E response \in UNION {Responses(b) : b \in 1..Len(BOARDS)} : FetchBoard(response)
    \/ Diff
    \/ \E io_error \in BOOLEAN : SaveOpen(io_error)
    \/ \E n \in 0..MaxText : SaveWrite(n)
    \/ \E ok \in BOOLEAN : SendTelegram(ok)
    \/ Finish

\* The runs nothing kills, in which every blocking call returns.
NextLive ==
    \/ \E token_set, chat_set \in BOOLEAN : StartRun(token_set, chat_set)
    \/ RunStep

LiveSpec == Init /\ [][NextLive]_vars /\ WF_vars(RunStep)

\* The same program with owed recorded, with unsent recorded, and with lost
\* recorded.
InitOwed == Start /\ observe = "owed"
SpecOwed == InitOwed /\ [][Next]_vars
InitUnsent == Start /\ observe = "unsent"
SpecUnsent == InitUnsent /\ [][Next]_vars
InitLost == Start /\ observe = "lost"
SpecLost == InitLost /\ [][Next]_vars

\* ----------------------------------------------------------------- claims
\* What a later load_seen_ids reads from the file as it is now.
Reload == load_seen_ids(file_exists, file, FALSE)

\* The file holds exactly the snapshot of the set S.
Persisted(S) ==
    /\ file_exists
    /\ file = Snapshot(S)
    /\ Reload = [raised |-> FALSE, ids |-> S, is_first_run |-> FALSE]

\* C1: write before notify.  Whenever a send attempt has been made in a run,
\* save_seen_ids has returned in that run, with the snapshot written or with
\* its failure logged; up to and during the save no send has been made.
C1_WriteBeforeNotify ==
    /\ (sends # <<>> \/ attempt # 0 \/ pc = "notify") => save_state \in {"ok", "failed"}
    /\ pc \in {"load", "fetch", "save_open", "save_write"} => sends = <<>> /\ attempt = 0

\* C1 witness: a send has been made after a save that failed and was swallowed.
C1_Witness ==
    pc = "notify" /\ Len(sends) >= 1 /\ save_state = "failed"

\* C2 as stated: in the run after a run that crashed once its save had
\* succeeded, with the same fetch result, no send is made for an id the
\* crashed run persisted; and no send is ever made for an id such a crash
\* left without a send, as long as every fetch has returned it.
C2_NoDuplicateAfterCrash ==
    pc # "idle" =>
        /\ (prev.saved /\ prev.crashed /\ current_ids = prev.fetch)
               => \A i \in 1..Len(sends) : sends[i] \notin prev.ids
        /\ \A i \in 1..Len(sends) : sends[i] \notin owed

\* C2 amended: the same, for the runs whose load_seen_ids read a snapshot
\* from the file (no read error, no unparsable file).
C2_NoDuplicateAfterCrashWhenLoaded ==
    (pc # "idle" /\ load_kind = "snapshot") =>
        /\ (prev.saved /\ prev.crashed /\ current_ids = prev.fetch)
               => \A i \in 1..Len(sends) : sends[i] \notin prev.ids
        /\ \A i \in 1..Len(sends) : sends[i] \notin owed

\* C2 witness: the run after a crash that left ids without a send has loaded
\* the snapshot, fetched the same ids and reached the notification loop.
C2_Witness ==
    /\ pc = "notify"
    /\ load_kind = "snapshot"
    /\ prev.saved /\ prev.crashed
    /\ current_ids = prev.fetch
    /\ owed # {}
    /\ owed \subseteq current_ids

\* C3: the snapshot file is never partially written: every step leaves the
\* file as it was or holding a complete snapshot.
C3_AtomicReplace ==
    [][ \/ (file_exists' = file_exists /\ file' = file)
        \/ (file_exists' /\ \E S \in SUBSET AllIds : file' = Snapshot(S)) ]_vars

\* C4: load_seen_ids never raises, and answers (empty, true) for a missing
\* file, the stored ids with false for a well-formed snapshot, (empty, false)
\* for every other file.
C4_LoadNeverRaises ==
    /\ outcome # "load_raised"
    /\ load_kind # "none" =>
          /\ is_first_run = ~file0.exists
          /\ (~file0.exists) => seen_ids = {}
          /\ (file0.exists /\ ~IsIdsObject(file0.content)) => seen_ids = {}

\* C5: once the save of a run has succeeded, the file holds exactly the ids
\* the run fetched, in a first run and in steady state; in steady state
\* (previous | new) - removed is the current id set.
C5_SnapshotIsCurrent ==
    /\ save_state = "ok" => (current_ids # {} /\ Persisted(current_ids))
    /\ (save_state # "none" /\ ~is_first_run) => updated_ids = current_ids

\* C5 witness: a steady-state save succeeded in a run that found both new and
\* removed ids.
C5_Witness ==
    save_state = "ok" /\ ~is_first_run /\ new_ids # {} /\ removed_ids # {}

\* C6: when the loop over the boards ends with no posting, the run ends
\* there: no save, no send, and the file is as it was at the start of the run.
C6_TotalFailureGuard ==
    (board_i > Len(BOARDS) /\ all_jobs = {}) =>
        /\ pc \in {"fetch", "idle"}
        /\ save_state = "none"
        /\ sends = <<>> /\ attempt = 0
        /\ file_exists = file0.exists /\ file = file0.content

\* C6 witness: a run over an existing, non-empty snapshot was skipped.
C6_Witness ==
    outcome = "skipped" /\ file0.exists /\ seen_ids # {} /\ Persisted(seen_ids)

\* C7: a run that found no snapshot file makes no send, and what it persists
\* is the set of fetched ids.
C7_FirstRunSuppression ==
    (~file0.exists /\ load_kind # "none") =>
        /\ sends = <<>> /\ attempt = 0 /\ pc # "notify"
        /\ save_state # "none" => ids_to_persist = {job.id : job \in all_jobs}
        /\ save_state = "ok" => Persisted({job.id : job \in all_jobs})

\* C7 witness: a first run has ended after persisting two or more ids.
C7_Witness ==
    /\ ~file0.exists /\ outcome = "complete" /\ save_state = "ok"
    /\ Cardinality(current_ids) >= 2

\* The file holds an empty id list or cannot be parsed.
EmptyOrCorrupt(c) ==
    \/ c = Snapshot({})
    \/ json_load(c).kind = "JSONDecodeError"

C9_NotifyExactlyNew ==
    ~is_first_run =>
        /\ \A i \in 1..Len(sends) : sends[i] \in current_ids \ seen_ids
        /\ \A i, j \in 1..Len(sends) : sends[i] = sends[j] => i = j
        /\ outcome = "complete" => ToSet(sends) = current_ids \ seen_ids

\* C9 witness: a completed steady-state run with new, removed and kept ids.
C9_Witness ==
    /\ outcome = "complete" /\ ~is_first_run
    /\ sends # <<>>
    /\ seen_ids \ current_ids # {}
    /\ seen_ids \cap current_ids # {}

\* C10: a run that loaded the snapshot S and fetched exactly the ids of S
\* sends nothing and ends with the file holding the snapshot S.
C10_NoOpRunIdempotent ==
    (outcome = "complete" /\ load_kind = "snapshot" /\ current_ids = seen_ids
     /\ current_ids # {}) =>
        /\ sends = <<>>
        /\ Persisted(seen_ids)

\* C11: the sends of a run are made in ascending order of id, and a message
\* dropped does not end the loop: the run that completes has called send for
\* every new id.
C11_OrderedAndNotAborted ==
    /\ \A i, j \in 1..Len(sends) : i < j => LexLess(sends[i], sends[j])
    /\ (pc = "notify" /\ attempt = 0) => new_ids = ToSet(sends) \cup ToSet(queue)
    /\ (outcome = "complete" /\ ~is_first_run) => ToSet(sends) = new_ids

\* C11 witness: send has been called for an id after the message of an
\* earlier id was dropped.
C11_Witness ==
    /\ dropped # {}
    /\ Len(sends) >= 2
    /\ sends[Len(sends)] \notin dropped

\* C12: a failed write in a steady-state run is swallowed: the run goes on to
\* the notification loop, and the file is left as it was before the write.
C12_FailedSaveLeavesStale ==
    (save_state = "failed" /\ ~is_first_run) =>
        /\ pc = "notify" \/ (pc = "idle" /\ outcome = "complete")
        /\ outcome = "complete" => ToSet(sends) = new_ids
        /\ file_exists = file0.exists /\ file = file0.content

\* C16: the new and the removed ids of a run are disjoint, whatever the
\* previous and the current set.
C16_NewRemovedDisjoint ==
    /\ new_ids \cap removed_ids = {}
    /\ new_ids \subseteq current_ids
    /\ removed_ids \cap current_ids = {}

\* C16 witness: a run in the notification loop with new and removed ids.
C16_Witness ==
    pc = "notify" /\ new_ids # {} /\ removed_ids # {} /\ seen_ids \cap current_ids # {}

\* C19: no send is made for an id the run loaded from the snapshot, every id
\* a send is made for is an id of a fetched posting, and the lookup of the
\* posting never fails.
C19_SendsNewAndKnown ==
    /\ \A i \in 1..Len(sends) :
          /\ sends[i] \notin seen_ids
          /\ \E job \in all_jobs : job.id = sends[i]
    /\ \A i \in 1..Len(queue) : \E job \in all_jobs : job.id = queue[i]
    /\ outcome # "KeyError"

\* C19 witness: a send has been made in a run that loaded a non-empty
\* snapshot whose ids were all fetched again.
C19_Witness ==
    sends # <<>> /\ seen_ids # {} /\ seen_ids \subseteq current_ids

\* C14: a process started without one of the two credentials has exited
\* with a non-zero status and has done nothing: no load, no fetch, no save,
\* no send, the file as it was.
C14_FailFastWithoutCredentials ==
    ~(creds.token /\ creds.chat) =>
        /\ pc = "idle"
        /\ runs > 0 => (outcome = "SystemExit" /\ ExitStatus(outcome) # 0)
        /\ load_kind = "none"
        /\ board_i = 1 /\ all_jobs = {}
        /\ save_state = "none"
        /\ sends = <<>> /\ attempt = 0
        /\ file_exists = file0.exists /\ file = file0.content

\* C14 witness: a process with the token but without the chat id has exited,
\* with a non-empty snapshot on disk.
C14_Witness ==
    /\ outcome = "SystemExit"
    /\ creds.token /\ ~creds.chat
    /\ file0.exists /\ Reload.ids # {}

\* The ids of the postings fetched so far in this run.
FetchedIds == {job.id : job \in all_jobs}

\* C13: a source failure counts as zero postings of that source and never
\* ends the run.  No posting of a failed board is among the fetched ones;
\* a run in which a board failed ends only by completing or by the
\* total-failure guard, the latter only with nothing fetched at all; past the
\* fetch loop every board has been asked; and the run diffs, persists and
\* notifies with the postings of the boards that answered.
C13_SourceFailureIsolated ==
    /\ \A b \in fetch_failed : \A job \in all_jobs : job.platform # BOARDS[b]
    /\ (fetch_failed # {} /\ pc = "idle") =>
           \/ outcome = "complete" /\ all_jobs # {}
           \/ outcome = "skipped" /\ all_jobs = {}
    /\ pc \in {"save_open", "save_write", "notify"} =>
           /\ board_i = Len(BOARDS) + 1
           /\ current_ids = FetchedIds
    /\ (fetch_failed # {} /\ outcome = "complete") =>
           /\ board_i = Len(BOARDS) + 1
           /\ current_ids = FetchedIds
           /\ save_state = "ok" => Persisted(FetchedIds)
           /\ ~is_first_run => ToSet(sends) = FetchedIds \ seen_ids

\* The call of send_telegram_message for the head of the loop returns True,
\* returns False.
ReturnsTrue == queue' = Tail(queue) /\ attempt' = 0 /\ dropped' = dropped
ReturnsFalse == queue' = Tail(queue) /\ attempt' = 0 /\ dropped' = {Head(queue)}

\* One attempt of send_telegram_message: there are at most two for a message,
\* the second follows a failed first and nothing else, the call returns True
\* exactly on an attempt that succeeded and False exactly on a failed second.
AttemptStep ==
    \A ok \in BOOLEAN : SendTelegram(ok) =>
        /\ attempt \in {0, 1}
        /\ ReturnsTrue <=> ok
        /\ ReturnsFalse <=> (~ok /\ attempt = 1)
        /\ (attempt' = 1 /\ queue' = queue) <=> (~ok /\ attempt = 0)
        /\ Len(sends') = Len(sends) + (IF attempt = 0 THEN 1 ELSE 0)

\* A dropped message is not sent again in this run.
DroppedInRun ==
    /\ attempt \in {0, 1}
    /\ dropped \subseteq ToSet(sends)
    /\ dropped \cap ToSet(queue) = {}
    /\ \A i, j \in 1..Len(sends) : sends[i] = sends[j] => i = j

\* C15 as stated: at most two attempts for a message, the second only after a
\* failed first, True exactly on a success and False after two failures; and
\* a dropped message is sent again neither in this run nor in any later run,
\* as long as every fetch has returned its posting.
C15_TwoAttemptsThenDropped ==
    /\ [][AttemptStep]_vars
    /\ [](DroppedInRun /\ (pc # "idle" => \A i \in 1..Len(sends) : sends[i] \notin unsent))

\* C15 amended: the same, the later runs being those whose load_seen_ids read
\* a snapshot from the file (no read error, no unparsable file).
C15_TwoAttemptsThenDroppedWhenLoaded ==
    /\ [][AttemptStep]_vars
    /\ [](DroppedInRun /\ ((pc # "idle" /\ load_kind = "snapshot")
                               => \A i \in 1..Len(sends) : sends[i] \notin unsent))

\* C15 witness: a run that loaded the snapshot is in its loop and has made a
\* send, a message an earlier run dropped is still in the feed, and the
\* run has itself dropped a message after a second attempt.
C15_Witness ==
    /\ pc = "notify"
    /\ load_kind = "snapshot"
    /\ unsent # {} /\ unsent \subseteq current_ids
    /\ dropped # {}

\* The ids of the boards whose fetch failed in this run.
FailedIds == UNION {IdsOf(b) : b \in fetch_failed}

\* C20: a partial failure is diffed like a removal.  In a steady-state run in
\* which a board failed and another returned postings, the seen ids of the
\* failed board are removed and not persisted; between runs the file holds no
\* id so lost; and a later run that fetches such an id again, its posting never
\* having been absent from an answer of its board, takes it for new and has
\* sent a message for it by the end of its loop.
C20_PartialFailureIsRemoval ==
    /\ (pc = "notify" /\ fetch_failed # {}) =>
           /\ seen_ids \cap FailedIds \subseteq removed_ids
           /\ updated_ids \cap FailedIds = {}
           /\ save_state = "ok" => Reload.ids \cap FailedIds = {}
    /\ (pc = "idle" /\ ~Reload.raised) => lost \cap Reload.ids = {}
    /\ pc # "idle" => lost \cap seen_ids = {}
    /\ pc = "notify" => lost \cap current_ids \subseteq new_ids
    /\ (pc = "notify" /\ queue = <<>> /\ attempt = 0) =>
           lost \cap current_ids \subseteq ToSet(sends)

\* C20 witness: the run loaded the snapshot an earlier run had taken ids of a
\* failed board out of, every board has answered, and the run has sent a
\* message for each of those ids.
C20_Witness ==
    /\ pc = "notify"
    /\ load_kind = "snapshot"
    /\ fetch_failed = {}
    /\ seen_ids # {}
    /\ lost # {} /\ lost \subseteq ToSet(sends)

\* The id of posting raw of board b as the data model describes it: the
\* source name joined to the source-local identifier, or to the title and the
\* publish timestamp when there is none.
StableId(b, raw) ==
    BOARDS[b] \o <<COLON>>
        \o (IF raw.id = NULL
            THEN raw.title \o <<UNDERSCORE>> \o raw.publishedAt
            ELSE raw.id)

\* Posting raw of board b is among the postings fetched in this run.
Fetched(b, raw) ==
    \E job \in all_jobs : job.platform = BOARDS[b] /\ job.title = raw.title

\* C17: every fetched posting carries the id the data model describes, the
\* same in every run; so a posting whose id is in the set the run loaded is
\* fetched under that id, is not new and gets no message.
C17_IdStability ==
    \A b \in 1..Len(BOARDS) : \A raw \in RawJobs(b) :
        /\ \A job \in all_jobs :
               (job.platform = BOARDS[b] /\ job.title = raw.title)
                   => job.id = StableId(b, raw)
        /\ (Fetched(b, raw) /\ StableId(b, raw) \in seen_ids /\ pc # "fetch") =>
               /\ StableId(b, raw) \notin new_ids
               /\ \A i \in 1..Len(sends) : sends[i] # StableId(b, raw)
               /\ pc \in {"save_open", "save_write", "notify"}
                      => StableId(b, raw) \in current_ids

\* C17 witness: the second run has loaded the snapshot the first run saved,
\* which holds a posting without source-local id; the posting is fetched
\* again, together with a new one the run sends a message for.
C17_Witness ==
    /\ pc = "notify"
    /\ runs = 2 /\ prev.saved
    /\ load_kind = "snapshot"
    /\ Fetched(1, RawJob(1))
    /\ StableId(1, RawJob(1)) \in seen_ids \cap prev.ids
    /\ sends # <<>>

\* The number of steps a run can still take, at most: one per board left to
\* fetch, one for the guard and the diff, two for the save, two per message
\* left, less the attempt made on the message at the head, one for the end.
StepsLeft ==
    LET notify(k) == 2 * k + 1
        save == 2 + notify(Cardinality(AllIds))
        fetch == Len(BOARDS) + 1 + save
    IN  CASE pc = "idle"       -> 0
          [] pc = "load"       -> 1 + fetch
          [] pc = "fetch"      -> (Len(BOARDS) + 1 - board_i) + 1 + save
          [] pc = "save_open"  -> 2 + notify(Cardinality(new_ids))
          [] pc = "save_write" -> 1 + notify(Cardinality(new_ids))
          [] pc = "notify"     -> notify(Len(queue)) - attempt

\* C18: every run terminates.  Every step of a running script lowers
\* StepsLeft, which is at most 6 + Len(BOARDS) + 2 * Cardinality(AllIds) and is 0
\* at the exit only; a run fetches each board once and makes at most two
\* attempts for each new id; and a run in which every call returns reaches
\* its exit.
C18_RunTerminates ==
    /\ [][pc # "idle" => StepsLeft' < StepsLeft]_vars
    /\ [](/\ board_i \in 1..(Len(BOARDS) + 1)
          /\ pc \in {"save_open", "save_write", "notify"} => board_i = Len(BOARDS) + 1
          /\ attempt \in {0, 1}
          /\ Len(sends) <= Cardinality(new_ids)
          /\ StepsLeft >= 0
          /\ StepsLeft = 0 <=> pc = "idle")
    /\ (pc # "idle") ~> (pc = "idle")

\* C18 witness: a run has reached its exit after a failed fetch, a failed
\* save, a message delivered at the second attempt and a message dropped.
C18_Witness ==
    /\ pc = "idle" /\ outcome = "complete"
    /\ fetch_failed # {}
    /\ save_state = "failed"
    /\ Len(sends) >= 2
    /\ dropped # {}
====
